---- MODULE Spec2Model ----
(***************************************************************************)
(* Model of the signal-generation pipeline of ai-trading-agent:            *)
(*   data_acquisition/parse_twitter_trends.py  TwitterTrendParser          *)
(*   analysis/signal_generator.py              SignalGenerator             *)
(*                                                                         *)
(* Python floats are modelled as fixed-point integers in units of 1/Scale  *)
(* (Scale = 1.0); a division or a weighting rounds to the nearest unit.    *)
(* Python str values are TLA+ strings; Chars gives the characters of the   *)
(* strings whose content the code inspects (lower(), `in`).                *)
(* None is the empty sequence where a function returns a value or None.    *)
(***************************************************************************)
EXTENDS Integers, Sequences, FiniteSets, TLC

VARIABLES
    crypto_keywords,   \* TwitterTrendParser.crypto_keywords, in the set's iteration order
    thresholds,        \* SignalGenerator.thresholds
    pc,                \* position of process_tweets
    entries,           \* the entries of the input corpus (raw_data[...]['entries'])
    tweets,            \* process_tweets: tweets
    results,           \* process_tweets: results
    aggregated_data,   \* process_tweets: aggregated_data (without trading_signals)
    trading_signals,   \* aggregated_data['trading_signals']
    exception,         \* the exception process_tweets re-raised, "" if none
    run,               \* how many times the pipeline has been started on the corpus
    first_signals,     \* trading_signals of the first run, kept to compare the second with
    now,               \* datetime.now(), a logical clock
    gpc,               \* position of a direct caller of SignalGenerator
    coin_data,         \* argument of the last direct generate_signals_batch call
    signals,           \* result of the last direct generate_signals_batch call
    call,              \* arguments of the last direct generate_signal call
    signal,            \* result of the last direct generate_signal call (<<>> is None)
    confidences,       \* _calculate_mention_confidence: mention_count -> value returned so far
    impacts,           \* _calculate_engagement_impact: engagement_score -> value returned so far
    max_retries,       \* retry_on_error: max_retries
    delay,             \* retry_on_error: delay
    rpc,               \* position of retry_on_error's wrapper
    retries,           \* wrapper: retries
    invocations,       \* how many times the wrapper has called func
    last_error,        \* the invocation that raised the exception e last caught, 0 if none
    slept,             \* the wait_time of every time.sleep of the wrapper, in order
    outcome            \* how the wrapper ended: "" (running), "result", "None", or "raise"

vars == <<crypto_keywords, thresholds, pc, entries, tweets, results, aggregated_data,
          trading_signals, exception, run, first_signals, now,
          gpc, coin_data, signals, call, signal, confidences, impacts,
          max_retries, delay, rpc, retries, invocations, last_error, slept, outcome>>

parserVars == <<crypto_keywords, pc, entries, tweets, results, aggregated_data,
                trading_signals, exception, run, first_signals>>

callerVars == <<gpc, coin_data, signals, call, signal>>

scorerVars == <<confidences, impacts>>

retryVars == <<max_retries, delay, rpc, retries, invocations, last_error, slept, outcome>>

\* no scorer has been called directly
ScorersIdle ==
    /\ confidences = <<>>
    /\ impacts = <<>>

\* no decorated function is in use
RetryIdle ==
    /\ max_retries = 3
    /\ delay = 5
    /\ rpc = "idle"
    /\ retries = 0
    /\ invocations = 0
    /\ last_error = 0
    /\ slept = <<>>
    /\ outcome = ""

----------------------------------------------------------------------------
(* Bounds of the model *)

\* longest input corpus
MaxEntries == 5
\* longest coin_data list handed directly to generate_signals_batch
MaxItems == 3
\* largest mention_count handed directly to _calculate_mention_confidence
MaxCount == 7
\* largest max_retries handed to retry_on_error
MaxRetries == 4

----------------------------------------------------------------------------
(* Numbers *)

\* 1.0 in fixed-point units
Scale == 10000

Abs(x) == IF x < 0 THEN -x ELSE x

Max(a, b) == IF b > a THEN b ELSE a

Min(a, b) == IF b < a THEN b ELSE a

\* n / d rounded to the nearest unit, halves away from zero (d > 0)
RoundDiv(n, d) ==
    IF n >= 0 THEN (2 * n + d) \div (2 * d) ELSE -((2 * (-n) + d) \div (2 * d))

RECURSIVE Pow2(_)
Pow2(k) == IF k = 0 THEN 1 ELSE 2 * Pow2(k - 1)

\* number of fractional bits of a logarithm
LogBits == 10

\* floor(log2(y / Scale)) for y >= Scale
RECURSIVE ILog2(_)
ILog2(y) == IF y < 2 * Scale THEN 0 ELSE 1 + ILog2(y \div 2)

\* the fractional bits of log2(m / Scale) for Scale <= m < 2*Scale, by repeated squaring
RECURSIVE FracLog2(_, _)
FracLog2(m, bits) ==
    IF bits = 0 THEN 0
    ELSE LET sq == (m * m) \div Scale
         IN  IF sq >= 2 * Scale
             THEN Pow2(bits - 1) + FracLog2(sq \div 2, bits - 1)
             ELSE FracLog2(sq, bits - 1)

\* np.log1p(x) for x >= 0 (x in fixed-point units), as log2(1 + x) in units of 2^-LogBits;
\* the ratio of two of them is the ratio of the natural logarithms
Log1p(x) ==
    LET y == Scale + x
        k == ILog2(y)
    IN  k * Pow2(LogBits) + FracLog2(y \div Pow2(k), LogBits)

----------------------------------------------------------------------------
(* Strings *)

Chars(s) ==
    CASE s = "btc"        -> <<"b", "t", "c">>
      [] s = "eth"        -> <<"e", "t", "h">>
      [] s = "bitcoin"    -> <<"b", "i", "t", "c", "o", "i", "n">>
      [] s = "ethereum"   -> <<"e", "t", "h", "e", "r", "e", "u", "m">>
      [] s = "crypto"     -> <<"c", "r", "y", "p", "t", "o">>
      [] s = "blockchain" -> <<"b", "l", "o", "c", "k", "c", "h", "a", "i", "n">>
      [] s = "defi"       -> <<"d", "e", "f", "i">>
      [] s = "nft"        -> <<"n", "f", "t">>
      [] s = "altcoin"    -> <<"a", "l", "t", "c", "o", "i", "n">>
      [] s = "token"      -> <<"t", "o", "k", "e", "n">>
      [] s = "BTC up"     -> <<"B", "T", "C", " ", "u", "p">>
      [] s = "Ethereum"   -> <<"E", "t", "h", "e", "r", "e", "u", "m">>
      [] s = "btc ETH eth" -> <<"b", "t", "c", " ", "E", "T", "H", " ", "e", "t", "h">>
      [] s = "hodl"       -> <<"h", "o", "d", "l">>

\* str.lower() on one character
LowerChar(c) ==
    CASE c = "B" -> "b" [] c = "C" -> "c" [] c = "E" -> "e"
      [] c = "H" -> "h" [] c = "T" -> "t" [] OTHER -> c

Lower(cs) == [i \in 1..Len(cs) |-> LowerChar(cs[i])]

\* Python's `sub in text` on strings
Contains(sub, text) ==
    \E i \in 1..(Len(text) - Len(sub) + 1) : SubSeq(text, i, i + Len(sub) - 1) = sub

Reverse(s) == [i \in 1..Len(s) |-> s[Len(s) + 1 - i]]

----------------------------------------------------------------------------
(* analysis/signal_generator.py *)

None == <<>>

SignalThresholds ==
    [shape |-> "SignalThresholds",
     STRONG_BUY |-> 8000, BUY |-> 5000, NEUTRAL |-> 0, SELL |-> -5000, STRONG_SELL |-> -8000,
     MIN_MENTIONS |-> 5, MIN_ENGAGEMENT |-> 100 * Scale]

\* SignalThresholds(MIN_MENTIONS=0, MIN_ENGAGEMENT=0.0)
ZeroMinThresholds ==
    [SignalThresholds EXCEPT !.MIN_MENTIONS = 0, !.MIN_ENGAGEMENT = 0]

\* SignalGenerator(thresholds=None): every attribute access on it raises AttributeError
NoThresholds ==
    [shape |-> "None",
     STRONG_BUY |-> 0, BUY |-> 0, NEUTRAL |-> 0, SELL |-> 0, STRONG_SELL |-> 0,
     MIN_MENTIONS |-> 0, MIN_ENGAGEMENT |-> 0]

SentimentKeys == {"compound", "pos", "neg", "neu"}

\* a sentiment dict: `keys` are the keys present, an absent key's field is unused
SentimentDict(keys, compound, pos, neg, neu) ==
    [shape |-> "dict", keys |-> keys, compound |-> compound, pos |-> pos, neg |-> neg, neu |-> neu]

\* a sentiment argument that is no dict (None): .get raises AttributeError
NoneSentiment ==
    [shape |-> "None", keys |-> {}, compound |-> 0, pos |-> 0, neg |-> 0, neu |-> 0]

\* dict.get(key, default)
Get(d, key, default) == IF key \in d.keys THEN d[key] ELSE default

\* the mistaken sign term: 0 for a compound of exactly 0
MutSentimentSign(compound_score) ==
    IF compound_score > 0 THEN 1 ELSE IF compound_score = 0 THEN 0 ELSE -1

\* (1 if compound_score > 0 else -1)
SentimentSign(compound_score) == IF compound_score > 0 THEN 1 ELSE -1

CalculateSentimentScore(sentiment_data) ==
    IF sentiment_data.shape # "dict"
    THEN 0                                     \* except Exception: return 0.0
    ELSE LET compound_score == Get(sentiment_data, "compound", 0)
             pos_score == Get(sentiment_data, "pos", 0)
             neg_score == Get(sentiment_data, "neg", 0)
             weighted_score ==
                 RoundDiv(compound_score * 5 + (pos_score - neg_score) * 3
                            + SentimentSign(compound_score) * 2 * Scale, 10)
         IN  Max(-Scale, Min(Scale, weighted_score))

\* the mistaken impact: the quotient is not capped at 1.0
MutCalculateEngagementImpact(engagement_score, th) ==
    IF th.shape # "SignalThresholds" THEN 0
    ELSE IF Log1p(th.MIN_ENGAGEMENT) = 0 THEN Scale
    ELSE (Log1p(Max(0, engagement_score)) * Scale) \div Log1p(th.MIN_ENGAGEMENT)

\* A zero divisor raises nothing: np.log1p returns np.float64, and np.float64 / 0.0 is
\* inf, or nan for 0.0 / 0.0, with a RuntimeWarning; min(1.0, inf) and min(1.0, nan)
\* are both 1.0.
CalculateEngagementImpact(engagement_score, th) ==
    IF th.shape # "SignalThresholds"
    THEN 0                                     \* except Exception: return 0.0
    ELSE LET numerator == Log1p(Max(0, engagement_score))
             denominator == Log1p(th.MIN_ENGAGEMENT)
         IN  IF denominator = 0
             THEN Scale
             ELSE LET normalized == (numerator * Scale) \div denominator
                  IN  Min(Scale, normalized)

\* the mistaken confidence: np.log in place of np.log1p in the numerator
MutCalculateMentionConfidence(mention_count, th) ==
    IF th.shape # "SignalThresholds" \/ mention_count <= 0 THEN 0
    ELSE IF Log1p(th.MIN_MENTIONS * Scale) = 0 THEN Scale
    ELSE Min(Scale, Max(0, (Log1p((mention_count - 1) * Scale) * Scale)
                              \div Log1p(th.MIN_MENTIONS * Scale)))

\* np.log1p of a count below 0 is -inf or nan, and max(0.0, .) of either is 0.0.
\* A zero divisor raises nothing: the quotient is inf, and min(1.0, max(0.0, inf)) is
\* 1.0, or nan for 0.0 / 0.0, and max(0.0, nan) is 0.0.
CalculateMentionConfidence(mention_count, th) ==
    IF th.shape # "SignalThresholds"
    THEN 0                                     \* except Exception: return 0.0
    ELSE IF mention_count < 0
    THEN Min(Scale, 0)
    ELSE LET numerator == Log1p(mention_count * Scale)
             denominator == Log1p(th.MIN_MENTIONS * Scale)
         IN  IF denominator = 0
             THEN (IF numerator > 0 THEN Scale ELSE 0)
             ELSE LET base_confidence == (numerator * Scale) \div denominator
                  IN  Min(Scale, Max(0, base_confidence))

\* the mistaken classification: strict comparisons
MutClassify(signal_strength, th) ==
    IF signal_strength > th.STRONG_BUY THEN "STRONG_BUY"
    ELSE IF signal_strength > th.BUY THEN "BUY"
    ELSE IF signal_strength < th.STRONG_SELL THEN "STRONG_SELL"
    ELSE IF signal_strength < th.SELL THEN "SELL"
    ELSE "NEUTRAL"

\* generate_signal: "Determine signal type"
Classify(signal_strength, th) ==
    IF signal_strength >= th.STRONG_BUY THEN "STRONG_BUY"
    ELSE IF signal_strength >= th.BUY THEN "BUY"
    ELSE IF signal_strength <= th.STRONG_SELL THEN "STRONG_SELL"
    ELSE IF signal_strength <= th.SELL THEN "SELL"
    ELSE "NEUTRAL"

\* the mistaken strength: the weighted sum re-clamped to [0, 1]
MutSignalStrength(sentiment_score, engagement_impact, confidence) ==
    Max(0, Min(Scale, RoundDiv(sentiment_score * 5 + engagement_impact * 3 + confidence * 2, 10)))

\* generate_signal: "Calculate final signal strength"
SignalStrength(sentiment_score, engagement_impact, confidence) ==
    RoundDiv(sentiment_score * 5 + engagement_impact * 3 + confidence * 2, 10)

\* generate_signal: <<signal>>, or None when the body raised
GenerateSignal(coin, sentiment_data, mention_count, engagement_score, th, t) ==
    LET sentiment_score == CalculateSentimentScore(sentiment_data)
        engagement_impact == CalculateEngagementImpact(engagement_score, th)
        confidence == CalculateMentionConfidence(mention_count, th)
        signal_strength == SignalStrength(sentiment_score, engagement_impact, confidence)
    IN  IF th.shape # "SignalThresholds"
        THEN None                              \* self.thresholds.STRONG_BUY raises: return None
        ELSE <<[coin |-> coin,
                signal_type |-> Classify(signal_strength, th),
                signal_strength |-> signal_strength,
                confidence |-> confidence,
                metrics |-> [sentiment_score |-> sentiment_score,
                             engagement_impact |-> engagement_impact,
                             mention_count |-> mention_count,
                             raw_sentiment |-> sentiment_data],
                timestamp |-> t]>>

ItemKeys == {"coin", "sentiment", "mentions", "engagement"}

\* an element of coin_data: `keys` are the keys present
Item(keys, coin, sentiment, mentions, engagement) ==
    [keys |-> keys, coin |-> coin, sentiment |-> sentiment,
     mentions |-> mentions, engagement |-> engagement]

\* the mistaken loop body: a failing item ends the loop
RECURSIVE MutCollectSignals(_, _, _)
MutCollectSignals(items, th, t) ==
    IF items = <<>> THEN <<>>
    ELSE LET data == Head(items)
         IN  IF ItemKeys \subseteq data.keys
             THEN GenerateSignal(data.coin, data.sentiment, data.mentions, data.engagement, th, t)
                    \o MutCollectSignals(Tail(items), th, t)
             ELSE <<>>

\* generate_signals_batch: the loop over coin_data
RECURSIVE CollectSignals(_, _, _)
CollectSignals(items, th, t) ==
    IF items = <<>> THEN <<>>
    ELSE LET data == Head(items)
             got == IF ItemKeys \subseteq data.keys
                    THEN GenerateSignal(data.coin, data.sentiment, data.mentions,
                                        data.engagement, th, t)
                    ELSE None                  \* KeyError: logged, continue
         IN  got \o CollectSignals(Tail(items), th, t)

\* the mistaken sort key: the strength itself
MutSortKey(x) == x.signal_strength

\* key=lambda x: abs(x['signal_strength'])
SortKey(x) == Abs(x.signal_strength)

\* x put into a list sorted by key, descending, after the elements whose key is not smaller
InsertDescending(acc, x) ==
    LET n == Cardinality({i \in 1..Len(acc) : SortKey(acc[i]) >= SortKey(x)})
    IN  SubSeq(acc, 1, n) \o <<x>> \o SubSeq(acc, n + 1, Len(acc))

\* sorted(signals, key=..., reverse=True): a stable sort
RECURSIVE Sorted(_)
Sorted(s) ==
    IF s = <<>> THEN <<>>
    ELSE InsertDescending(Sorted(SubSeq(s, 1, Len(s) - 1)), s[Len(s)])

GenerateSignalsBatch(items, th, t) == Sorted(CollectSignals(items, th, t))

----------------------------------------------------------------------------
(* data_acquisition/parse_twitter_trends.py *)

\* TwitterTrendParser.__init__: the keyword set, in the order the source writes it
CryptoKeywords ==
    <<"btc", "eth", "bitcoin", "ethereum", "crypto", "blockchain",
      "defi", "nft", "altcoin", "token">>

\* iteration orders of the keyword set: a set of str has no fixed order, it changes
\* with the interpreter's hash seed
KeywordOrders == {CryptoKeywords, Reverse(CryptoKeywords)}

\* TwitterTrendParser.max_tweets (default)
max_tweets == 1000

\* an entry of the corpus. kind "ok": the whole path to the four fields is there;
\* "missing": a key of the path or a field is absent (KeyError);
\* "malformed": a level of the path is no dict (a list, a str, None: TypeError)
Entry(kind, text, favorites, retweets) ==
    [kind |-> kind, text |-> text, created_at |-> "Sun Nov 01", favorites |-> favorites,
     retweets |-> retweets]

\* _extract_tweet_data for an entry that does not raise: <<tweet>>, or None on KeyError
ExtractTweetData(tweet_entry) ==
    IF tweet_entry.kind = "ok"
    THEN <<[text |-> tweet_entry.text, created_at |-> tweet_entry.created_at,
            favorites |-> tweet_entry.favorites, retweets |-> tweet_entry.retweets]>>
    ELSE None

\* _extract_tweet_data raises what `except KeyError` does not catch
ExtractRaises(tweet_entry) == tweet_entry.kind = "malformed"

\* SentimentIntensityAnalyzer.polarity_scores, an external function of the text
PolarityScores(text) ==
    CASE text = "BTC up"   -> SentimentDict(SentimentKeys, 8000, 6000, 1000, 3000)
      [] text = "Ethereum" -> SentimentDict(SentimentKeys, -10000, 0, 10000, 0)
      [] text = "btc ETH eth"  -> SentimentDict(SentimentKeys, -4000, 1000, 5000, 4000)
      [] text = "hodl"     -> SentimentDict(SentimentKeys, 0, 0, 0, 10000)

AnalyzeSentiment(text) == PolarityScores(text)

\* the mistaken detection: the text is not lower-cased
MutDetectCryptoMentions(text, keywords) ==
    SelectSeq(keywords, LAMBDA keyword : Contains(Chars(keyword), Chars(text)))

DetectCryptoMentions(text, keywords) ==
    LET text_lower == Lower(Chars(text))
    IN  SelectSeq(keywords, LAMBDA keyword : Contains(Chars(keyword), text_lower))

CalculateEngagementScore(favorites, retweets) ==
    RoundDiv((favorites * 1 + retweets * 2) * Scale, 3)

\* process_tweets: the extraction loop over entries[:max_tweets]
RECURSIVE ExtractAll(_)
ExtractAll(es) ==
    IF es = <<>> THEN <<>> ELSE ExtractTweetData(Head(es)) \o ExtractAll(Tail(es))

\* process_tweets: the body of the processing loop
ProcessTweet(tweet, keywords) ==
    [text |-> tweet.text,
     created_at |-> tweet.created_at,
     sentiment |-> AnalyzeSentiment(tweet.text),
     crypto_mentions |-> DetectCryptoMentions(tweet.text, keywords),
     engagement_score |-> CalculateEngagementScore(tweet.favorites, tweet.retweets)]

RECURSIVE SumCompound(_)
SumCompound(rs) ==
    IF rs = <<>> THEN 0 ELSE Head(rs).sentiment.compound + SumCompound(Tail(rs))

\* position of coin in the mapping (a dict in insertion order), 0 if absent
IndexOf(mapping, coin) ==
    IF \E i \in 1..Len(mapping) : mapping[i].coin = coin
    THEN CHOOSE i \in 1..Len(mapping) : mapping[i].coin = coin
    ELSE 0

\* process_tweets: the body of `for coin in result['crypto_mentions']`
AccumulateCoin(mapping, coin, result) ==
    LET with == IF IndexOf(mapping, coin) = 0
                THEN Append(mapping, [coin |-> coin, mentions |-> 0, avg_sentiment |-> 0,
                                      total_engagement |-> 0])
                ELSE mapping
        i == IndexOf(with, coin)
    IN  [with EXCEPT ![i].mentions = @ + 1,
                     ![i].avg_sentiment = @ + result.sentiment.compound,
                     ![i].total_engagement = @ + result.engagement_score]

RECURSIVE AccumulateResult(_, _, _)
AccumulateResult(mapping, coins, result) ==
    IF coins = <<>> THEN mapping
    ELSE AccumulateResult(AccumulateCoin(mapping, Head(coins), result), Tail(coins), result)

\* process_tweets: `for result in results`
RECURSIVE AccumulateAll(_, _)
AccumulateAll(mapping, rs) ==
    IF rs = <<>> THEN mapping
    ELSE AccumulateAll(AccumulateResult(mapping, Head(rs).crypto_mentions, Head(rs)), Tail(rs))

\* the mistaken average: the running sum is left as it is
MutAverage(coin_entry) == coin_entry

\* process_tweets: "Calculate averages", for one coin
Average(coin_entry) ==
    IF coin_entry.mentions > 0
    THEN [coin_entry EXCEPT !.avg_sentiment = RoundDiv(@, coin_entry.mentions)]
    ELSE coin_entry

\* the mistaken threshold: any asset mentioned twice is signalled
MutEnoughMentions(data) == data.mentions >= 2

\* process_tweets: `if data['mentions'] >= 5`
EnoughMentions(data) == data.mentions >= 5

\* the mistaken element: pos is the average itself, not max(0, average)
MutCoinDataOf(data) ==
    Item(ItemKeys, data.coin,
         SentimentDict(SentimentKeys, data.avg_sentiment, data.avg_sentiment,
                       Max(0, -data.avg_sentiment), Scale - Abs(data.avg_sentiment)),
         data.mentions, data.total_engagement)

\* process_tweets: the coin_data element of one asset
CoinDataOf(data) ==
    Item(ItemKeys, data.coin,
         SentimentDict(SentimentKeys, data.avg_sentiment, Max(0, data.avg_sentiment),
                       Max(0, -data.avg_sentiment), Scale - Abs(data.avg_sentiment)),
         data.mentions, data.total_engagement)

RECURSIVE BuildCoinData(_)
BuildCoinData(mapping) ==
    IF mapping = <<>> THEN <<>>
    ELSE (IF EnoughMentions(Head(mapping)) THEN <<CoinDataOf(Head(mapping))>> ELSE <<>>)
           \o BuildCoinData(Tail(mapping))

NoAggregate == [total_tweets |-> 0, average_sentiment |-> 0, crypto_mentions |-> <<>>,
                timestamp |-> 0]

----------------------------------------------------------------------------
(* Inputs *)

EntryChoices ==
    {Entry("ok", "BTC up", 300, 600),
     Entry("ok", "Ethereum", 0, 0),
     Entry("ok", "btc ETH eth", 30, 15),
     Entry("ok", "hodl", 3, 0),
     Entry("missing", "", 0, 0),
     Entry("malformed", "", 0, 0)}

SeqsUpTo(S, n) == UNION {[1..k -> S] : k \in 0..n}

Corpora == SeqsUpTo(EntryChoices, MaxEntries)

----------------------------------------------------------------------------
(* process_tweets, started on a corpus and then run phase by phase *)

ProcessTweets ==
    /\ pc = "idle"
    /\ \E corpus \in Corpora : entries' = corpus
    /\ pc' = "extract"
    /\ run' = 1
    /\ UNCHANGED <<crypto_keywords, thresholds, tweets, results, aggregated_data,
                   trading_signals, exception, first_signals, now>>
    /\ UNCHANGED callerVars
    /\ UNCHANGED scorerVars
    /\ UNCHANGED retryVars

ExtractTweets ==
    /\ pc = "extract"
    /\ LET taken == SubSeq(entries, 1, Min(Len(entries), max_tweets))
       IN  IF \E i \in 1..Len(taken) : ExtractRaises(taken[i])
           THEN /\ exception' = "TypeError"
                /\ pc' = "raised"
                /\ UNCHANGED tweets
           ELSE /\ tweets' = ExtractAll(taken)
                /\ pc' = "process"
                /\ UNCHANGED exception
    /\ UNCHANGED <<crypto_keywords, thresholds, entries, results, aggregated_data,
                   trading_signals, run, first_signals, now>>
    /\ UNCHANGED callerVars
    /\ UNCHANGED scorerVars
    /\ UNCHANGED retryVars

AnalyzeTweets ==
    /\ pc = "process"
    /\ results' = [i \in 1..Len(tweets) |-> ProcessTweet(tweets[i], crypto_keywords)]
    /\ pc' = "aggregate"
    /\ UNCHANGED <<crypto_keywords, thresholds, entries, tweets, aggregated_data,
                   trading_signals, exception, run, first_signals, now>>
    /\ UNCHANGED callerVars
    /\ UNCHANGED scorerVars
    /\ UNCHANGED retryVars

Aggregate ==
    /\ pc = "aggregate"
    /\ IF Len(results) = 0
       THEN /\ exception' = "ZeroDivisionError"
            /\ pc' = "raised"
            /\ UNCHANGED aggregated_data
       ELSE /\ aggregated_data' =
                   [total_tweets |-> Len(results),
                    average_sentiment |-> RoundDiv(SumCompound(results), Len(results)),
                    crypto_mentions |-> AccumulateAll(<<>>, results),
                    timestamp |-> now]
            /\ pc' = "average"
            /\ UNCHANGED exception
    /\ UNCHANGED <<crypto_keywords, thresholds, entries, tweets, results,
                   trading_signals, run, first_signals, now>>
    /\ UNCHANGED callerVars
    /\ UNCHANGED scorerVars
    /\ UNCHANGED retryVars

CalculateAverages ==
    /\ pc = "average"
    /\ aggregated_data' =
           [aggregated_data EXCEPT !.crypto_mentions = [i \in 1..Len(@) |-> Average(@[i])]]
    /\ pc' = "signals"
    /\ UNCHANGED <<crypto_keywords, thresholds, entries, tweets, results,
                   trading_signals, exception, run, first_signals, now>>
    /\ UNCHANGED callerVars
    /\ UNCHANGED scorerVars
    /\ UNCHANGED retryVars

GenerateTradingSignals ==
    /\ pc = "signals"
    /\ trading_signals' =
           GenerateSignalsBatch(BuildCoinData(aggregated_data.crypto_mentions), thresholds, now)
    /\ pc' = "done"
    /\ UNCHANGED <<crypto_keywords, thresholds, entries, tweets, results, aggregated_data,
                   exception, run, first_signals, now>>
    /\ UNCHANGED callerVars
    /\ UNCHANGED scorerVars
    /\ UNCHANGED retryVars

\* the pipeline is run a second time on the same corpus, by a new interpreter
RunAgain ==
    /\ pc = "done"
    /\ run = 1
    /\ first_signals' = trading_signals
    /\ run' = 2
    /\ crypto_keywords' \in KeywordOrders
    /\ now' = now + 1
    /\ pc' = "extract"
    /\ tweets' = <<>>
    /\ results' = <<>>
    /\ aggregated_data' = NoAggregate
    /\ trading_signals' = <<>>
    /\ UNCHANGED <<thresholds, entries, exception>>
    /\ UNCHANGED callerVars
    /\ UNCHANGED scorerVars
    /\ UNCHANGED retryVars

Init ==
    /\ crypto_keywords \in KeywordOrders
    /\ thresholds = SignalThresholds
    /\ pc = "idle"
    /\ entries = <<>>
    /\ tweets = <<>>
    /\ results = <<>>
    /\ aggregated_data = NoAggregate
    /\ trading_signals = <<>>
    /\ exception = ""
    /\ run = 0
    /\ first_signals = <<>>
    /\ now = 0
    /\ gpc = "idle"
    /\ coin_data = <<>>
    /\ signals = <<>>
    /\ call = <<>>
    /\ signal = None
    /\ ScorersIdle
    /\ RetryIdle

Next ==
    \/ ProcessTweets
    \/ ExtractTweets
    \/ AnalyzeTweets
    \/ Aggregate
    \/ CalculateAverages
    \/ GenerateTradingSignals
    \/ RunAgain

Spec == Init /\ [][Next]_vars

----------------------------------------------------------------------------
(* SignalGenerator called directly *)

ThresholdChoices == {SignalThresholds, ZeroMinThresholds, NoThresholds}

CompoundChoices == {-10000, -5000, 0, 2000, 5000, 10000}

PosChoices == {0, 5000, 10000, 20000}

NegChoices == {0, 5000, 10000}

SentimentChoices ==
    {SentimentDict(SentimentKeys, c, p, n, 0) :
        c \in CompoundChoices, p \in PosChoices, n \in NegChoices}
    \cup {SentimentDict({}, 0, 0, 0, 0),
          SentimentDict({"pos", "neg"}, 0, 10000, 0, 0),
          SentimentDict({"compound"}, 10000, 0, 0, 0),
          NoneSentiment}

MentionChoices == {-1, 0, 3, 5, 10}

EngagementChoices == {-50 * Scale, 0, 50 * Scale, 100 * Scale, 500 * Scale}

Strong == SentimentDict(SentimentKeys, 8000, 6000, 1000, 3000)

Mild == SentimentDict(SentimentKeys, 5000, 5000, 0, 5000)

Bad == SentimentDict(SentimentKeys, -10000, 0, 10000, 0)

ItemChoices ==
    {Item(ItemKeys, "BTC", Strong, 10, 500 * Scale),
     Item(ItemKeys, "ETH", Mild, 5, 0),
     Item(ItemKeys, "DOGE", Mild, 5, 0),
     Item(ItemKeys, "LTC", Mild, 5, 100 * Scale),
     Item(ItemKeys, "SOL", Bad, 0, 0),
     Item(ItemKeys, "ADA", NoneSentiment, 3, 50 * Scale),
     Item({"coin", "mentions", "engagement"}, "XRP", NoneSentiment, 10, 500 * Scale)}

CallGenerateSignal ==
    /\ gpc = "idle"
    /\ \E coin \in {"BTC"}, sentiment_data \in SentimentChoices,
          mention_count \in MentionChoices, engagement_score \in EngagementChoices :
          /\ call' = [coin |-> coin, sentiment_data |-> sentiment_data,
                      mention_count |-> mention_count, engagement_score |-> engagement_score]
          /\ signal' = GenerateSignal(coin, sentiment_data, mention_count, engagement_score,
                                      thresholds, now)
    /\ gpc' = "generate_signal"
    /\ UNCHANGED <<thresholds, now, coin_data, signals>>
    /\ UNCHANGED parserVars
    /\ UNCHANGED scorerVars
    /\ UNCHANGED retryVars

CallGenerateSignalsBatch ==
    /\ gpc = "idle"
    /\ \E items \in SeqsUpTo(ItemChoices, MaxItems) :
          /\ coin_data' = items
          /\ signals' = GenerateSignalsBatch(items, thresholds, now)
    /\ gpc' = "generate_signals_batch"
    /\ UNCHANGED <<thresholds, now, call, signal>>
    /\ UNCHANGED parserVars
    /\ UNCHANGED scorerVars
    /\ UNCHANGED retryVars

InitGenerator ==
    /\ crypto_keywords = CryptoKeywords
    /\ thresholds \in ThresholdChoices
    /\ pc = "idle"
    /\ entries = <<>>
    /\ tweets = <<>>
    /\ results = <<>>
    /\ aggregated_data = NoAggregate
    /\ trading_signals = <<>>
    /\ exception = ""
    /\ run = 0
    /\ first_signals = <<>>
    /\ now = 0
    /\ gpc = "idle"
    /\ coin_data = <<>>
    /\ signals = <<>>
    /\ call = <<>>
    /\ signal = None
    /\ ScorersIdle
    /\ RetryIdle

NextGenerator ==
    \/ CallGenerateSignal
    \/ CallGenerateSignalsBatch

SpecGenerator == InitGenerator /\ [][NextGenerator]_vars

----------------------------------------------------------------------------
(* Properties of process_tweets (Spec) *)

\* the posts of results that mention coin
Mentioning(coin) ==
    {i \in 1..Len(results) :
        \E k \in 1..Len(results[i].crypto_mentions) : results[i].crypto_mentions[k] = coin}

MentionedCoins ==
    UNION {{results[i].crypto_mentions[k] : k \in 1..Len(results[i].crypto_mentions)} :
              i \in 1..Len(results)}

\* the sum of the compound scores of the posts S
RECURSIVE CompoundOver(_)
CompoundOver(S) ==
    IF S = {} THEN 0
    ELSE LET i == CHOOSE j \in S : TRUE
         IN  results[i].sentiment.compound + CompoundOver(S \ {i})

\* the sum of the engagement scores of the posts S
RECURSIVE EngagementOver(_)
EngagementOver(S) ==
    IF S = {} THEN 0
    ELSE LET i == CHOOSE j \in S : TRUE
         IN  results[i].engagement_score + EngagementOver(S \ {i})

SignalledCoins == {trading_signals[i].coin : i \in 1..Len(trading_signals)}

\* C1: every entry of trading_signals names a distinct asset that at least MIN_MENTIONS (5)
\* posts mention, and no asset mentioned by fewer than 5 posts is signalled.
C1_SignalsMeetMinMentions ==
    pc = "done" =>
        /\ \A i \in 1..Len(trading_signals) :
              /\ trading_signals[i].coin \in MentionedCoins
              /\ Cardinality(Mentioning(trading_signals[i].coin)) >= 5
              /\ trading_signals[i].metrics.mention_count
                    = Cardinality(Mentioning(trading_signals[i].coin))
        /\ \A i, j \in 1..Len(trading_signals) :
              i # j => trading_signals[i].coin # trading_signals[j].coin
        /\ \A coin \in MentionedCoins :
              Cardinality(Mentioning(coin)) < 5 => coin \notin SignalledCoins

\* a run that signals one asset and drops another one with 3 mentions
C1_Witness ==
    /\ pc = "done"
    /\ trading_signals # <<>>
    /\ \E coin \in MentionedCoins :
          Cardinality(Mentioning(coin)) = 3 /\ coin \notin SignalledCoins

\* C2: on a corpus with no extractable entry (no entry, or every entry lacking a key)
\* process_tweets raises no division-by-zero fault.
C2_EmptyCorpusGuarded ==
    (run >= 1 /\ \A i \in 1..Len(entries) : entries[i].kind = "missing")
        => exception # "ZeroDivisionError"

\* C5: a corpus with an extraction error in some entries and at least one good entry is
\* processed without process_tweets raising, and total_tweets counts the good entries.
C5_ExtractionErrorsRecovered ==
    (\E i \in 1..Len(entries) : entries[i].kind = "ok") =>
        /\ pc # "raised"
        /\ pc = "done" =>
              aggregated_data.total_tweets
                 = Cardinality({i \in 1..Len(entries) : entries[i].kind = "ok"})

\* C7: once the averages are calculated the mapping holds exactly the assets some post
\* mentions, each once, with mentions = the number of posts mentioning it (> 0),
\* total_engagement = the sum of their engagement scores and avg_sentiment = the sum of
\* their compound scores / mentions; until then avg_sentiment is the undivided sum.
C7_AggregationExact ==
    LET cm == aggregated_data.crypto_mentions
    IN  pc \in {"average", "signals", "done"} =>
           /\ {cm[j].coin : j \in 1..Len(cm)} = MentionedCoins
           /\ Len(cm) = Cardinality(MentionedCoins)
           /\ \A j \in 1..Len(cm) :
                 LET posts == Mentioning(cm[j].coin)
                     total == CompoundOver(posts)
                 IN  /\ cm[j].mentions = Cardinality(posts)
                     /\ cm[j].mentions > 0
                     /\ cm[j].total_engagement = EngagementOver(posts)
                     /\ pc = "average" => cm[j].avg_sentiment = total
                     /\ pc # "average" =>
                           /\ 2 * Abs(cm[j].avg_sentiment * cm[j].mentions - total)
                                 <= cm[j].mentions
                           /\ (cm[j].mentions = 1 => cm[j].avg_sentiment = total)

\* a finished run with a post that mentions nothing and an asset whose average of
\* several posts differs from their sum
C7_Witness ==
    /\ pc = "done"
    /\ \E i \in 1..Len(results) : results[i].crypto_mentions = <<>>
    /\ \E j \in 1..Len(aggregated_data.crypto_mentions) :
          LET e == aggregated_data.crypto_mentions[j]
          IN  /\ e.mentions >= 2
              /\ e.avg_sentiment # CompoundOver(Mentioning(e.coin))
              /\ e.total_engagement > 0

WithoutTimestamp(sigs) == [i \in 1..Len(sigs) |-> [sigs[i] EXCEPT !.timestamp = 0]]

\* C8: a second run on the same corpus returns the same trading_signals list, element
\* for element and in the same order, once the timestamp is excluded.
C8_SameSignalsOnRerun ==
    (run = 2 /\ pc = "done") =>
        WithoutTimestamp(trading_signals) = WithoutTimestamp(first_signals)

----------------------------------------------------------------------------
(* Properties of SignalGenerator (SpecGenerator) *)

\* every signal the direct calls returned
ReturnedSignals ==
    {signal[i] : i \in 1..Len(signal)} \cup {signals[i] : i \in 1..Len(signals)}

SignalWith(strength, type) ==
    \E x \in ReturnedSignals : x.signal_strength = strength /\ x.signal_type = type

\* C3: with the default thresholds a strength s is classified STRONG_BUY iff s >= 0.8,
\* BUY iff 0.5 <= s < 0.8, STRONG_SELL iff s <= -0.8, SELL iff -0.8 < s <= -0.5 and
\* NEUTRAL iff -0.5 < s < 0.5; a strength equal to a threshold is on the threshold's side.
C3_ClassificationByFirstMatch ==
    thresholds = SignalThresholds =>
        \A x \in ReturnedSignals :
            LET s == x.signal_strength
                t == x.signal_type
            IN  /\ (t = "STRONG_BUY") <=> (10 * s >= 8 * Scale)
                /\ (t = "BUY") <=> (10 * s >= 5 * Scale /\ 10 * s < 8 * Scale)
                /\ (t = "STRONG_SELL") <=> (10 * s <= -8 * Scale)
                /\ (t = "SELL") <=> (10 * s <= -5 * Scale /\ 10 * s > -8 * Scale)
                /\ (t = "NEUTRAL") <=> (10 * s > -5 * Scale /\ 10 * s < 5 * Scale)

\* a batch that returned a signal at each of the strengths 0.8, 0.5 and -0.5
C3_Witness ==
    /\ gpc = "generate_signals_batch"
    /\ SignalWith((8 * Scale) \div 10, "STRONG_BUY")
    /\ SignalWith((5 * Scale) \div 10, "BUY")
    /\ SignalWith(-((5 * Scale) \div 10), "SELL")

\* the items of coin_data for which generate_signal is called and returns a signal
Succeeding ==
    {i \in 1..Len(coin_data) :
        ItemKeys \subseteq coin_data[i].keys /\ thresholds.shape = "SignalThresholds"}

\* C4: generate_signals_batch returns one signal for each item that did not fail (no
\* required key missing, generate_signal did not return None), whatever fails before it.
C4_BatchSkipsFailures ==
    gpc = "generate_signals_batch" =>
        /\ Len(signals) = Cardinality(Succeeding)
        /\ \A i \in Succeeding : \E k \in 1..Len(signals) :
              /\ signals[k].coin = coin_data[i].coin
              /\ signals[k].metrics.mention_count = coin_data[i].mentions
              /\ signals[k].metrics.raw_sentiment = coin_data[i].sentiment
        /\ \A coin \in {coin_data[i].coin : i \in 1..Len(coin_data)} :
              Cardinality({k \in 1..Len(signals) : signals[k].coin = coin})
                 = Cardinality({i \in Succeeding : coin_data[i].coin = coin})

\* a batch whose first item lacks a key and whose later items are signalled
C4_Witness ==
    /\ gpc = "generate_signals_batch"
    /\ Len(coin_data) >= 2
    /\ ~(ItemKeys \subseteq coin_data[1].keys)
    /\ Len(signals) = Len(coin_data) - 1
    /\ signals # <<>>

\* the succeeding items in input order
RECURSIVE SucceedingItems(_)
SucceedingItems(i) ==
    IF i > Len(coin_data) THEN <<>>
    ELSE (IF i \in Succeeding THEN <<coin_data[i]>> ELSE <<>>) \o SucceedingItems(i + 1)

Orderings(n) == {p \in [1..n -> 1..n] : \A i, j \in 1..n : i # j => p[i] # p[j]}

\* C6: the returned list is a permutation of the signals of the succeeding items, in
\* non-increasing |signal_strength|, signals of equal |signal_strength| in input order.
C6_SortedStable ==
    gpc = "generate_signals_batch" =>
        LET ok == SucceedingItems(1)
            n == Len(ok)
        IN  /\ Len(signals) = n
            /\ \A i, j \in 1..Len(signals) :
                  i < j => Abs(signals[i].signal_strength) >= Abs(signals[j].signal_strength)
            /\ \E p \in Orderings(n) :
                  /\ \A i \in 1..n :
                        /\ signals[i].coin = ok[p[i]].coin
                        /\ signals[i].metrics.mention_count = ok[p[i]].mentions
                        /\ signals[i].metrics.raw_sentiment = ok[p[i]].sentiment
                  /\ \A i, j \in 1..n :
                        (i < j /\ Abs(signals[i].signal_strength)
                                     = Abs(signals[j].signal_strength))
                           => p[i] < p[j]

\* a batch that was reordered and that holds two different assets of equal
\* |signal_strength| and opposite sign
C6_Witness ==
    /\ gpc = "generate_signals_batch"
    /\ Len(signals) = Len(coin_data)
    /\ \E i \in 1..Len(signals) : signals[i].coin # coin_data[i].coin
    /\ \E i, j \in 1..Len(signals) :
          /\ i < j
          /\ signals[i].coin # signals[j].coin
          /\ signals[i].signal_strength = -signals[j].signal_strength
          /\ signals[i].signal_strength # 0

\* C9: a returned signal has signal_strength = sentiment_score*0.5 + engagement_impact*0.3
\* + confidence*0.2 with sentiment_score in [-1,1], engagement_impact and confidence in
\* [0,1], hence signal_strength in [-0.5, 1.0], and with the default thresholds it is
\* never STRONG_SELL.
C9_StrengthRange ==
    \A x \in ReturnedSignals :
        LET m == x.metrics
        IN  /\ 2 * Abs(10 * x.signal_strength
                         - (m.sentiment_score * 5 + m.engagement_impact * 3
                              + x.confidence * 2)) <= 10
            /\ m.sentiment_score >= -Scale /\ m.sentiment_score <= Scale
            /\ m.engagement_impact >= 0 /\ m.engagement_impact <= Scale
            /\ x.confidence >= 0 /\ x.confidence <= Scale
            /\ 2 * x.signal_strength >= -Scale /\ x.signal_strength <= Scale
            /\ thresholds = SignalThresholds => x.signal_type # "STRONG_SELL"

\* a call that returned the lowest strength, -0.5, which the thresholds make a SELL
C9_Witness ==
    /\ gpc = "generate_signal"
    /\ signal # None
    /\ 2 * signal[1].signal_strength = -Scale
    /\ signal[1].signal_type = "SELL"
    /\ signal[1].confidence = 0

\* the value of a field of a sentiment record, 0 when absent
Field(d, key) == IF key \in d.keys THEN d[key] ELSE 0

\* C10: for a sentiment record the score is compound*0.5 + (pos - neg)*0.3 + sign*0.2
\* clamped to [-1, 1], absent fields counting 0 and sign being +1 when compound > 0 and
\* -1 otherwise: -0.2 for an all-zero or empty record, 1 for (1, 1, 0), -1 for (-1, 0, 1).
C10_SentimentScore ==
    \A x \in ReturnedSignals :
        LET d == x.metrics.raw_sentiment
            score == x.metrics.sentiment_score
            c == Field(d, "compound")
            w10 == 5 * c + 3 * (Field(d, "pos") - Field(d, "neg"))
                     + (IF c > 0 THEN 2 * Scale ELSE -2 * Scale)
        IN  d.shape = "dict" =>
               /\ score >= -Scale /\ score <= Scale
               /\ w10 >= 10 * Scale => score = Scale
               /\ w10 <= -10 * Scale => score = -Scale
               /\ (w10 > -10 * Scale /\ w10 < 10 * Scale) => 2 * Abs(10 * score - w10) <= 10
               /\ (c = 0 /\ Field(d, "pos") = 0 /\ Field(d, "neg") = 0)
                     => 10 * score = -2 * Scale

\* a call on the empty record, scored -0.2
C10_Witness ==
    /\ gpc = "generate_signal"
    /\ signal # None
    /\ signal[1].metrics.raw_sentiment.shape = "dict"
    /\ signal[1].metrics.raw_sentiment.keys = {}
    /\ 10 * signal[1].metrics.sentiment_score = -2 * Scale

\* C11: a scorer that meets a scoring error returns 0.0 and generate_signal still returns
\* a signal: the sentiment score is 0 for a sentiment that is no dict, the engagement
\* impact is 0 when MIN_ENGAGEMENT is 0 and the confidence is 0 when MIN_MENTIONS is 0.
C11_ScorersDefaultToZero ==
    /\ (gpc = "generate_signal" /\ thresholds.shape = "SignalThresholds") => signal # None
    /\ \A x \in ReturnedSignals :
          /\ x.metrics.raw_sentiment.shape # "dict" => x.metrics.sentiment_score = 0
          /\ thresholds.MIN_ENGAGEMENT = 0 => x.metrics.engagement_impact = 0
          /\ thresholds.MIN_MENTIONS = 0 => x.confidence = 0

----------------------------------------------------------------------------
(* The scorers called directly, every value returned being kept *)

CountChoices == -1..MaxCount

ScoreChoices == {-50 * Scale, 0, 50 * Scale, 100 * Scale, 101 * Scale, 500 * Scale}

\* the function f with f[x] = y added
Recorded(f, x, y) == [z \in DOMAIN f \cup {x} |-> IF z = x THEN y ELSE f[z]]

CallMentionConfidence ==
    /\ \E mention_count \in CountChoices \ DOMAIN confidences :
          confidences' = Recorded(confidences, mention_count,
                                  CalculateMentionConfidence(mention_count, thresholds))
    /\ UNCHANGED <<thresholds, now, impacts>>
    /\ UNCHANGED parserVars
    /\ UNCHANGED callerVars
    /\ UNCHANGED retryVars

CallEngagementImpact ==
    /\ \E engagement_score \in ScoreChoices \ DOMAIN impacts :
          impacts' = Recorded(impacts, engagement_score,
                              CalculateEngagementImpact(engagement_score, thresholds))
    /\ UNCHANGED <<thresholds, now, confidences>>
    /\ UNCHANGED parserVars
    /\ UNCHANGED callerVars
    /\ UNCHANGED retryVars

InitScorers ==
    /\ Init
    /\ crypto_keywords = CryptoKeywords

NextScorers ==
    \/ CallMentionConfidence
    \/ CallEngagementImpact

SpecScorers == InitScorers /\ [][NextScorers]_vars

\* C12: for mention counts >= 0 the confidence is in [0, 1], 0 at 0, exactly 1.0 at
\* MIN_MENTIONS and above, below 1.0 under MIN_MENTIONS, and never decreases when the
\* count grows.
C12_MentionConfidence ==
    \A n \in DOMAIN confidences :
        n >= 0 =>
           /\ confidences[n] >= 0 /\ confidences[n] <= Scale
           /\ n = 0 => confidences[n] = 0
           /\ n >= SignalThresholds.MIN_MENTIONS => confidences[n] = Scale
           /\ n < SignalThresholds.MIN_MENTIONS => confidences[n] < Scale
           /\ \A m \in DOMAIN confidences : (0 <= m /\ m < n) => confidences[m] <= confidences[n]

\* the confidence has been asked for 0, for MIN_MENTIONS and for its two neighbours
C12_Witness ==
    /\ {0, 4, 5, 6} \subseteq DOMAIN confidences
    /\ confidences[4] > 0
    /\ confidences[5] = Scale

\* C13: the engagement impact is in [0, 1], 0 for a score <= 0, exactly 1.0 at
\* MIN_ENGAGEMENT (100.0) and above, and never decreases when the score grows.
C13_EngagementImpact ==
    \A e \in DOMAIN impacts :
        /\ impacts[e] >= 0 /\ impacts[e] <= Scale
        /\ e <= 0 => impacts[e] = 0
        /\ e >= 100 * Scale => impacts[e] = Scale
        /\ \A d \in DOMAIN impacts : d < e => impacts[d] <= impacts[e]

\* the impact has been asked for a negative score, for one below MIN_ENGAGEMENT, for
\* MIN_ENGAGEMENT and for a larger one
C13_Witness ==
    /\ {-50 * Scale, 50 * Scale, 100 * Scale, 500 * Scale} \subseteq DOMAIN impacts
    /\ impacts[50 * Scale] > 0
    /\ impacts[50 * Scale] < Scale
    /\ impacts[100 * Scale] = Scale

----------------------------------------------------------------------------
(* Properties of the signals process_tweets asks for (Spec) *)

\* the entries of the aggregated mapping for coin
EntriesOf(coin) ==
    {j \in 1..Len(aggregated_data.crypto_mentions) :
        aggregated_data.crypto_mentions[j].coin = coin}

\* the asset of the end-to-end scenario: avg_sentiment 0.8, mentions 10,
\* total_engagement 500.0
ExampleAsset ==
    [coin |-> "btc", mentions |-> 10, avg_sentiment |-> 8 * (Scale \div 10),
     total_engagement |-> 500 * Scale]

ExampleSignal ==
    LET item == CoinDataOf(ExampleAsset)
    IN  GenerateSignal(item.coin, item.sentiment, item.mentions, item.engagement,
                       SignalThresholds, 0)

\* C14: every signal of process_tweets was asked for with the asset's mention count, its
\* total_engagement and the sentiment compound = a, pos = max(0, a), neg = max(0, -a),
\* neu = 1 - |a| of its average a; the asset with average 0.8, 10 mentions and engagement
\* 500.0 gets score 0.84, impact 1.0, confidence 1.0, strength 0.92 and STRONG_BUY.
C14_ReconstructedSentiment ==
    /\ pc = "done" =>
          \A i \in 1..Len(trading_signals) :
              LET x == trading_signals[i]
                  raw == x.metrics.raw_sentiment
              IN  /\ Cardinality(EntriesOf(x.coin)) = 1
                  /\ \A j \in EntriesOf(x.coin) :
                        LET a == aggregated_data.crypto_mentions[j].avg_sentiment
                            engagement == aggregated_data.crypto_mentions[j].total_engagement
                        IN  /\ raw.shape = "dict"
                            /\ raw.keys = {"compound", "pos", "neg", "neu"}
                            /\ raw.compound = a
                            /\ raw.pos = (IF a > 0 THEN a ELSE 0)
                            /\ raw.neg = (IF a < 0 THEN -a ELSE 0)
                            /\ raw.neu = Scale - (IF a < 0 THEN -a ELSE a)
                            /\ x.metrics.mention_count
                                  = aggregated_data.crypto_mentions[j].mentions
                            /\ engagement >= 100 * Scale <=> x.metrics.engagement_impact = Scale
                            /\ engagement <= 0 <=> x.metrics.engagement_impact = 0
    /\ ExampleSignal # None
    /\ 100 * ExampleSignal[1].metrics.sentiment_score = 84 * Scale
    /\ ExampleSignal[1].metrics.engagement_impact = Scale
    /\ ExampleSignal[1].confidence = Scale
    /\ 100 * ExampleSignal[1].signal_strength = 92 * Scale
    /\ ExampleSignal[1].signal_type = "STRONG_BUY"

\* a finished run that signals an asset of average 0.8 with the example's strength 0.92
\* as STRONG_BUY
C14_Witness ==
    /\ pc = "done"
    /\ \E i \in 1..Len(trading_signals) :
          /\ 10 * trading_signals[i].metrics.raw_sentiment.compound = 8 * Scale
          /\ 10 * trading_signals[i].metrics.raw_sentiment.neu = 2 * Scale
          /\ 100 * trading_signals[i].signal_strength = 92 * Scale
          /\ trading_signals[i].signal_type = "STRONG_BUY"

\* the positions of text (characters) where keyword starts once the text is lower-cased
Occurrences(keyword, text) ==
    {p \in 1..Len(text) :
        /\ p + Len(keyword) - 1 <= Len(text)
        /\ \A k \in 1..Len(keyword) : LowerChar(text[p + k - 1]) = keyword[k]}

\* how many times the post result lists coin
TimesListed(result, coin) ==
    Cardinality({k \in 1..Len(result.crypto_mentions) : result.crypto_mentions[k] = coin})

KeywordSet == {CryptoKeywords[k] : k \in 1..Len(CryptoKeywords)}

\* C15: a post counts toward a keyword exactly when its lower-cased text contains the
\* keyword, once per keyword however often the keyword occurs and toward every keyword
\* it contains; in the mapping mentions['eth'] >= mentions['ethereum'].
C15_SubstringMentions ==
    /\ pc \in {"aggregate", "average", "signals", "done"} =>
          \A i \in 1..Len(results) :
              /\ \A coin \in KeywordSet :
                    TimesListed(results[i], coin)
                       = (IF Occurrences(Chars(coin), Chars(results[i].text)) # {} THEN 1 ELSE 0)
              /\ \A k \in 1..Len(results[i].crypto_mentions) :
                    results[i].crypto_mentions[k] \in KeywordSet
    /\ pc \in {"average", "signals", "done"} =>
          /\ \A j \in 1..Len(aggregated_data.crypto_mentions) :
                LET e == aggregated_data.crypto_mentions[j]
                IN  e.mentions
                       = Cardinality({i \in 1..Len(results) :
                                         Occurrences(Chars(e.coin), Chars(results[i].text)) # {}})
          /\ \A j \in EntriesOf("ethereum") :
                \E k \in EntriesOf("eth") :
                    aggregated_data.crypto_mentions[k].mentions
                       >= aggregated_data.crypto_mentions[j].mentions

\* a finished run with a post containing one keyword twice, a post listed under two
\* keywords, a post in capitals, and more mentions of eth than of ethereum
C15_Witness ==
    /\ pc = "done"
    /\ \E i \in 1..Len(results) :
          /\ Cardinality(Occurrences(Chars("eth"), Chars(results[i].text))) = 2
          /\ TimesListed(results[i], "eth") = 1
          /\ TimesListed(results[i], "btc") = 1
    /\ \E i \in 1..Len(results) :
          /\ Occurrences(Chars("btc"), Chars(results[i].text)) # {}
          /\ ~ Contains(Chars("btc"), Chars(results[i].text))
    /\ \E j \in EntriesOf("ethereum"), k \in EntriesOf("eth") :
          aggregated_data.crypto_mentions[k].mentions
             > aggregated_data.crypto_mentions[j].mentions

----------------------------------------------------------------------------
(* utils/logger.py: retry_on_error *)

RetryChoices == -1..MaxRetries

DelayChoices == {0, 1, 5}

\* the mistaken backoff: the exponent is retries, not retries - 1
MutWaitTime(d, r) == d * Pow2(r)

\* wait_time = delay * (2 ** (retries - 1))
WaitTime(d, r) == d * Pow2(r - 1)

restOfRetry == <<thresholds, now, parserVars, callerVars, scorerVars>>

\* retry_on_error(max_retries, delay) decorates a function
Decorate ==
    /\ rpc = "idle"
    /\ max_retries' \in RetryChoices
    /\ delay' \in DelayChoices
    /\ rpc' = "decorated"
    /\ UNCHANGED <<retries, invocations, last_error, slept, outcome>>
    /\ UNCHANGED restOfRetry

\* the wrapper is called: retries = 0, then the loop test
WrapperCall ==
    /\ rpc = "decorated"
    /\ retries' = 0
    /\ rpc' = "loop"
    /\ UNCHANGED <<max_retries, delay, invocations, last_error, slept, outcome>>
    /\ UNCHANGED restOfRetry

\* return func(*args, **kwargs) when func returns
FuncReturns ==
    /\ rpc = "loop"
    /\ retries < max_retries
    /\ invocations' = invocations + 1
    /\ outcome' = "result"
    /\ rpc' = "returned"
    /\ UNCHANGED <<max_retries, delay, retries, last_error, slept>>
    /\ UNCHANGED restOfRetry

\* func raises an Exception: the except branch up to time.sleep or raise e
FuncRaises ==
    /\ rpc = "loop"
    /\ retries < max_retries
    /\ invocations' = invocations + 1
    /\ last_error' = invocations + 1
    /\ retries' = retries + 1
    /\ IF retries + 1 = max_retries
       THEN /\ outcome' = "raise"
            /\ rpc' = "raised"
            /\ UNCHANGED slept
       ELSE /\ slept' = Append(slept, WaitTime(delay, retries + 1))
            /\ rpc' = "sleeping"
            /\ UNCHANGED outcome
    /\ UNCHANGED <<max_retries, delay>>
    /\ UNCHANGED restOfRetry

\* func raises what except Exception does not catch (KeyboardInterrupt, SystemExit)
FuncEscapes ==
    /\ rpc = "loop"
    /\ retries < max_retries
    /\ invocations' = invocations + 1
    /\ last_error' = invocations + 1
    /\ outcome' = "escape"
    /\ rpc' = "raised"
    /\ UNCHANGED <<max_retries, delay, retries, slept>>
    /\ UNCHANGED restOfRetry

\* time.sleep(wait_time) returns
WakeUp ==
    /\ rpc = "sleeping"
    /\ rpc' = "loop"
    /\ UNCHANGED <<max_retries, delay, retries, invocations, last_error, slept, outcome>>
    /\ UNCHANGED restOfRetry

\* the loop test fails: return None
ReturnNone ==
    /\ rpc = "loop"
    /\ ~ (retries < max_retries)
    /\ outcome' = "None"
    /\ rpc' = "returned"
    /\ UNCHANGED <<max_retries, delay, retries, invocations, last_error, slept>>
    /\ UNCHANGED restOfRetry

InitRetry ==
    /\ Init
    /\ crypto_keywords = CryptoKeywords

NextRetry ==
    \/ Decorate
    \/ WrapperCall
    \/ FuncReturns
    \/ FuncRaises
    \/ FuncEscapes
    \/ WakeUp
    \/ ReturnNone

SpecRetry == InitRetry /\ [][NextRetry]_vars

\* C16: with max_retries >= 1 the function is invoked at most max_retries times; the
\* first success is returned and ends the call; the k-th failure with k < max_retries
\* is followed by a wait of delay * 2^(k-1); the max_retries-th failure re-raises that
\* exception without a wait; with max_retries <= 0 the function is never invoked and the
\* wrapper returns None.
C16_RetryBackoff ==
    rpc # "idle" =>
       /\ max_retries >= 1 => invocations <= max_retries
       /\ \A k \in 1..Len(slept) :
             /\ k < max_retries
             /\ slept[k] = delay * (2 ^ (k - 1))
       /\ rpc \in {"loop", "sleeping"} => (Len(slept) = retries /\ invocations = retries)
       /\ outcome = "result" =>
             /\ invocations = retries + 1
             /\ Len(slept) = retries
             /\ ~ ENABLED NextRetry
       /\ outcome = "raise" =>
             /\ retries = max_retries
             /\ invocations = max_retries
             /\ last_error = max_retries
             /\ Len(slept) = max_retries - 1
             /\ ~ ENABLED NextRetry
       /\ max_retries <= 0 =>
             /\ invocations = 0
             /\ rpc \in {"returned", "raised"} => outcome = "None"
       /\ outcome = "None" => max_retries <= 0

\* the default decoration (3, 5) fails three times: waits of 5 and 10, then the third
\* exception is re-raised
C16_Witness ==
    /\ rpc = "raised"
    /\ outcome = "raise"
    /\ max_retries = 3
    /\ delay = 5
    /\ slept = <<5, 10>>
    /\ invocations = 3
    /\ last_error = 3

----------------------------------------------------------------------------
(* The signal types process_tweets can return (Spec) *)

\* C17: every signal process_tweets returns has confidence exactly 1.0 and a strength of
\* at least -0.3, so none is SELL or STRONG_SELL: the asset has at least MIN_MENTIONS (5)
\* mentions and its sentiment score is at least -1.
C17_NoSellFromParser ==
    pc = "done" =>
        \A i \in 1..Len(trading_signals) :
            /\ trading_signals[i].metrics.mention_count >= SignalThresholds.MIN_MENTIONS
            /\ trading_signals[i].confidence = Scale
            /\ trading_signals[i].metrics.sentiment_score >= -Scale
            /\ 10 * trading_signals[i].signal_strength >= -3 * Scale
            /\ trading_signals[i].signal_type \notin {"SELL", "STRONG_SELL"}

\* a finished run whose signal has the lowest strength, -0.3: sentiment score -1 and no
\* engagement
C17_Witness ==
    /\ pc = "done"
    /\ \E i \in 1..Len(trading_signals) :
          /\ trading_signals[i].metrics.sentiment_score = -Scale
          /\ trading_signals[i].metrics.engagement_impact = 0
          /\ trading_signals[i].confidence = Scale
          /\ 10 * trading_signals[i].signal_strength = -3 * Scale
          /\ trading_signals[i].signal_type = "NEUTRAL"

====
